---- MODULE Spec2Model ----
(***************************************************************************)
(* Model of the pubsubhub runtime generated by #[publishes(..)]: one       *)
(* Vec<Arc<Mutex<Box<dyn Subscriber<T>>>>> per event type, with            *)
(* subscribe_T / publish_T / unsubscribe_T, the std Mutex of every handle  *)
(* (held / poisoned) and the callers that retain handles.                  *)
(***************************************************************************)
EXTENDS Integers, Sequences, FiniteSets, TLC

\* ---------------------------------------------------------------- bounds
MaxHandles == 3          \* Arc handles ever created (Arc::new calls)
MaxForeign == 1          \* of these, handles subscribed on the other hub
MaxGuards  == 1          \* MutexGuards a caller holds at the same time
MaxEaten   == 2          \* total_eaten a Dog can reach

\* ------------------------------------------------------- program universe
Hubs       == {"p", "q"}             \* PubSub::new() instances
TheHub     == "p"                    \* the hub the callers publish on
OtherHub   == "q"                    \* a second hub, the source of foreign handles
EventTypes == {"A", "B", "Food"}     \* the structs a hub can publish
Events     == {1, 123}               \* A { a: i32 } values used by the tests
Amounts    == {1, 2}                 \* Food { amount: i32 } values
Kinds      == {"Listener", "Dog"}    \* the two Subscriber impls of the repository
Threads    == {"main", "worker", "nested"}  \* the activations calling into a hub
Outer      == "main"                 \* the thread whose publish_T runs a receive
Inner      == "nested"               \* a call made by that receive, same thread
Reentrant  == {"Echo", "Forward"}    \* Subscribers whose receive publishes
NoThread   == "none"
Poison     == 123                    \* assert_ne!(event.a, 123)

VARIABLES
    names,      \* the event types of #[publishes(..)], the keys of names_map
    hubs,       \* the hubs constructed by PubSub::new()
    running,    \* the threads that call into the hubs
    subs,       \* subs[hub][T] : __subscriptions_T, a Vec of handles
    arcs,       \* arcs[h] : [type, kind] of every Arc created so far
    held,       \* handles (Arc clones) the callers still hold
    lockedBy,   \* lockedBy[h] : the thread holding h's MutexGuard, or NoThread
    poisoned,   \* handles whose Mutex is poisoned
    guards,     \* <<t, h>> : caller t holds the MutexGuard of arc.lock() on h
    pc,         \* pc[t] : where thread t is
    frame,      \* frame[t] : the publish_T call of thread t
    strong,     \* strong[h] : the strong count of the Arc h
    eaten,      \* eaten[h] : total_eaten of the subscriber behind h
    nSub,       \* nSub[hub][T] : subscribe_T calls made
    nUnsub      \* nUnsub[hub][T] : unsubscribe_T calls that found their handle

vars == <<names, hubs, running, subs, arcs, held, lockedBy, poisoned, guards, pc, frame, strong, eaten, nSub, nUnsub>>

Handles == DOMAIN arcs

Range(s) == {s[i] : i \in DOMAIN s}

\* frame[t] is the call thread t is in: the hub, the event type that selects
\* the method, the arguments (event of publish_T, arg = s_arc of
\* unsubscribe_T), the position idx of the iterator of publish_T, and what
\* the call has done so far: entry = the channels when it was entered,
\* delivered = the <<handle, event>> pairs receive returned from, failedAt =
\* the handle the call panicked at and failure = why.
\* The frame of a thread that is in no call:
NoFrame == [hub |-> "p", type |-> "A", event |-> 1, arg |-> 0, idx |-> 0,
            entry |-> <<>>, delivered |-> <<>>, failedAt |-> 0,
            failure |-> "none"]

\* ------------------------------------------------------ pure operations
\* Vec::push
Push(v, h) == Append(v, h)

\* (mutant: the scan compares the subscribers, not the Arc pointers)
PtrEqIndexByValue(v, h) ==
    IF \E i \in DOMAIN v : arcs[v[i]] = arcs[h]
    THEN CHOOSE i \in DOMAIN v :
            arcs[v[i]] = arcs[h] /\ \A j \in 1..(i - 1) : arcs[v[j]] # arcs[h]
    ELSE 0

\* (mutant: the scan stops before the last entry)
PtrEqIndexSkipsLast(v, h) ==
    IF \E i \in 1..(Len(v) - 1) : v[i] = h
    THEN CHOOSE i \in 1..(Len(v) - 1) : v[i] = h /\ \A j \in 1..(i - 1) : v[j] # h
    ELSE 0

\* the scan of unsubscribe_T: index of the first entry Arc::ptr_eq to h,
\* 0 for None
PtrEqIndex(v, h) ==
    IF \E i \in DOMAIN v : v[i] = h
    THEN CHOOSE i \in DOMAIN v : v[i] = h /\ \A j \in 1..(i - 1) : v[j] # h
    ELSE 0

\* (mutant: the last element is copied over the removed one and not popped)
SwapRemoveNoPop(v, i) == [v EXCEPT ![i] = v[Len(v)]]

\* (mutant: the last element is popped whatever the index)
SwapRemovePopsLast(v, i) == SubSeq(v, 1, Len(v) - 1)

\* (mutant: Vec::remove, the tail shifts down and the order is kept)
SwapRemoveStable(v, i) == SubSeq(v, 1, i - 1) \o SubSeq(v, i + 1, Len(v))

\* Vec::swap_remove(idx): the last element takes the place of the removed one
SwapRemove(v, i) ==
    IF i = Len(v) THEN SubSeq(v, 1, Len(v) - 1)
    ELSE [SubSeq(v, 1, Len(v) - 1) EXCEPT ![i] = v[Len(v)]]

\* (mutant: Vec::truncate(idx) in the place of Vec::swap_remove(idx))
RemoveByTruncate(v, h) ==
    IF PtrEqIndex(v, h) # 0 THEN SubSeq(v, 1, PtrEqIndex(v, h) - 1) ELSE v

\* the body of unsubscribe_T on one Vec
RemoveByIdentity(v, h) ==
    IF PtrEqIndex(v, h) # 0 THEN SwapRemove(v, PtrEqIndex(v, h)) ELSE v

\* Subscriber::receive panics: Listener asserts event.a != 123, Dog only adds
ReceiveFails(kind, e) == kind = "Listener" /\ e = Poison

\* Arc::new gives an allocation distinct from every live one
NewArc == Cardinality(Handles) + 1

\* (mutant: the hub has one Vec for all its event types)
SetChannelShared(s, hub, T, v) == [s EXCEPT ![hub] = [T2 \in DOMAIN s[hub] |-> v]]

\* the field self.__subscriptions_T of one hub, read and written
Channel(s, hub, T) == s[hub][T]
SetChannel(s, hub, T, v) == [s EXCEPT ![hub][T] = v]

\* (mutant: the guard is released without the poison flag)
PoisonForgotten(p, h) == p

\* a panic while the guard is alive poisons the Mutex
PoisonOnPanic(p, h) == p \cup {h}

\* (mutant: the loop walks the Vec from the back)
IterItemRev(v, idx) == v[Len(v) + 1 - idx]

\* (mutant: the loop stops one entry early)
IterDoneEarly(v, idx) == idx >= Len(v)

\* the `for .. in iter()` of publish_T: exhausted, and the item it yields
IterDone(v, idx) == idx > Len(v)
IterItem(v, idx) == v[idx]

\* (mutant: the panic of receive is swallowed and the loop goes on)
AfterReceiveSwallowed(failed) == "iter"

\* a panic of receive unwinds out of publish_T; a return goes on with the loop
AfterReceive(failed) == IF failed THEN "panicked" ELSE "iter"

\* (mutant: lock() does not wait for the holder)
MutexFreeAlways(h) == TRUE

\* Mutex::lock can take the Mutex only when no guard of it is alive
MutexFree(h) == lockedBy[h] = NoThread

\* (mutant: the guard is leaked, the Mutex stays locked)
DropGuardLeaks(l, h) == l

\* dropping the MutexGuard gives the Mutex back
DropGuard(l, h) == [l EXCEPT ![h] = NoThread]

\* Arc::clone adds a strong reference to the allocation
ArcClone(s, h) == [s EXCEPT ![h] = @ + 1]

\* (mutant: dropping one Arc frees the allocation whoever still shares it)
ArcDropFrees(s, h) == [s EXCEPT ![h] = 0]

\* dropping an Arc takes one strong reference away; the subscriber is
\* released when the count reaches 0
ArcDrop(s, h) == [s EXCEPT ![h] = @ - 1]

\* Dog::receive: self.total_eaten += event.amount; no other receive of the
\* repository keeps state
Eats(kind, T, e) == IF kind = "Dog" /\ T = "Food" THEN e ELSE 0

\* the event type a re-entrant receive publishes: Echo its own, Forward the
\* other one
Target(kind, T) ==
    IF kind = "Echo" THEN T ELSE IF T = "A" THEN "B" ELSE "A"

\* (mutant: receive returns without waiting for the call it made)
InnerDoneAlways(t, h) == TRUE

\* receive of a re-entrant subscriber returns after the publish_T it called
InnerDone(t, h) ==
    (t = Outer /\ arcs[h].kind \in Reentrant) =>
        pc[Inner] \in {"returned", "panicked"}

\* a panic of the inner publish_T unwinds through the receive that called it
InnerFailed(t, h) ==
    t = Outer /\ arcs[h].kind \in Reentrant /\ pc[Inner] = "panicked"

\* the frame of the inner call is gone when the receive that made it ends
PopInner(f, t, h, v) ==
    IF t = Outer /\ arcs[h].kind \in Reentrant THEN [f EXCEPT ![Inner] = v] ELSE f

\* (mutant: subscribe_T and unsubscribe_T take &self and run during publish_T)
NeverBorrowed(hub) == FALSE

\* &self / &mut self: the hub is borrowed by a call in progress
Borrowed(hub) == \E t \in Threads : pc[t] # "idle" /\ frame[t].hub = hub

\* ----------------------------------------------------------------- Init
\* PubSub::new() for every hub of hs, the struct being #[publishes(ns)]:
\* every __subscriptions_T is Vec::new()
New(ns, hs, ths) ==
    /\ names = ns
    /\ hubs = hs
    /\ running = ths
    /\ guards = {}
    /\ subs = [hub \in hs |-> [T \in ns |-> <<>>]]
    /\ arcs = <<>>
    /\ held = {}
    /\ lockedBy = <<>>
    /\ poisoned = {}
    /\ strong = <<>>
    /\ eaten = <<>>
    /\ pc = [t \in Threads |-> "idle"]
    /\ frame = [t \in Threads |-> NoFrame]
    /\ nSub = [hub \in hs |-> [T \in ns |-> 0]]
    /\ nUnsub = [hub \in hs |-> [T \in ns |-> 0]]

\* #[publishes(A)] struct PubSub, as in the tests, and two hubs of it
Init == New({"A"}, {TheHub, OtherHub}, {"main"})

\* #[publishes(A, B)] struct PubSub, and one hub of it
InitAB == New({"A", "B"}, {TheHub}, {"main"})

\* #[publishes(A)] struct PubSub, one hub of it shared by two threads
InitMT == New({"A"}, {TheHub}, {"main", "worker"})

\* #[publishes(Food)] struct PubSub, as in the Subscriber doc example
InitFood == New({"Food"}, {TheHub}, {"main"})

\* -------------------------------------------------------------- actions
\* subscribe_T(&mut self, s): Arc::new(Mutex::new(s)), push a clone, return it.
\* The caller keeps the returned Arc.
Subscribe(t, hub, T, kind) ==
    /\ pc[t] = "idle"
    /\ ~Borrowed(hub)
    /\ NewArc <= MaxHandles
    /\ LET arced == NewArc IN
        /\ arcs' = Append(arcs, [type |-> T, kind |-> kind])
        /\ lockedBy' = Append(lockedBy, NoThread)
        /\ subs' = SetChannel(subs, hub, T, Push(Channel(subs, hub, T), arced))
        /\ held' = held \cup {arced}
        /\ strong' = ArcClone(Append(strong, 1), arced)
        /\ eaten' = Append(eaten, 0)
    /\ nSub' = [nSub EXCEPT ![hub][T] = @ + 1]
    /\ UNCHANGED <<names, hubs, running, poisoned, pc, frame, nUnsub, guards>>

\* (mutant: unsubscribe_T locks the handle and unwraps the result first)
UnsubscribeLocking(t, hub, T, h) ==
    /\ pc[t] = "idle"
    /\ ~Borrowed(hub)
    /\ h \in held
    /\ arcs[h].type = T
    /\ MutexFree(h)
    /\ h \notin poisoned
    /\ subs' = SetChannel(subs, hub, T, RemoveByIdentity(Channel(subs, hub, T), h))
    /\ nUnsub' = [nUnsub EXCEPT ![hub][T] =
                     IF h \in Range(Channel(subs, hub, T)) THEN @ + 1 ELSE @]
    /\ strong' = IF PtrEqIndex(Channel(subs, hub, T), h) # 0
                 THEN ArcDrop(strong, h) ELSE strong
    /\ pc' = [pc EXCEPT ![t] = "unsubscribed"]
    /\ frame' = [frame EXCEPT ![t] =
                    [NoFrame EXCEPT !.hub = hub, !.type = T, !.arg = h,
                                    !.entry = subs]]
    /\ UNCHANGED <<names, hubs, running, eaten, arcs, held, lockedBy, poisoned, nSub, guards>>

\* unsubscribe_T(&mut self, s_arc): scan with Arc::ptr_eq, swap_remove
Unsubscribe(t, hub, T, h) ==
    /\ pc[t] = "idle"
    /\ ~Borrowed(hub)
    /\ h \in held
    /\ arcs[h].type = T
    /\ subs' = SetChannel(subs, hub, T, RemoveByIdentity(Channel(subs, hub, T), h))
    /\ nUnsub' = [nUnsub EXCEPT ![hub][T] =
                     IF h \in Range(Channel(subs, hub, T)) THEN @ + 1 ELSE @]
    /\ strong' = IF PtrEqIndex(Channel(subs, hub, T), h) # 0
                 THEN ArcDrop(strong, h) ELSE strong
    /\ pc' = [pc EXCEPT ![t] = "unsubscribed"]
    /\ frame' = [frame EXCEPT ![t] =
                    [NoFrame EXCEPT !.hub = hub, !.type = T, !.arg = h,
                                    !.entry = subs]]
    /\ UNCHANGED <<names, hubs, running, eaten, arcs, held, lockedBy, poisoned, nSub, guards>>

\* publish_T(&self, p) is entered: the iterator is created
PublishStart(t, hub, T, e) ==
    /\ pc[t] = "idle"
    /\ pc' = [pc EXCEPT ![t] = "iter"]
    /\ frame' = [frame EXCEPT ![t] =
                    [NoFrame EXCEPT !.hub = hub, !.type = T, !.event = e,
                                    !.idx = 1, !.entry = subs]]
    /\ UNCHANGED <<names, hubs, running, strong, eaten, subs, arcs, held, lockedBy, poisoned, nSub, nUnsub, guards>>

\* (mutant: the Mutex is reentrant, a relock by the holder succeeds)
PublishLockReentrant(t) ==
    /\ pc[t] = "iter"
    /\ LET f == frame[t]
           v == Channel(subs, f.hub, f.type) IN
        /\ ~IterDone(v, f.idx)
        /\ lockedBy[IterItem(v, f.idx)] \in {NoThread, t}
        /\ IF IterItem(v, f.idx) \in poisoned
           THEN /\ pc' = [pc EXCEPT ![t] = "panicked"]
                /\ frame' = [frame EXCEPT ![t].failedAt = IterItem(v, f.idx),
                                          ![t].failure = "poisoned"]
                /\ UNCHANGED lockedBy
           ELSE /\ pc' = [pc EXCEPT ![t] = "locked"]
                /\ lockedBy' = [lockedBy EXCEPT ![IterItem(v, f.idx)] = t]
                /\ UNCHANGED frame
    /\ UNCHANGED <<names, hubs, running, strong, eaten, subs, arcs, held, poisoned, nSub, nUnsub, guards>>

\* sub_container.lock().unwrap(): blocks while the Mutex is held (also when
\* the holder is the calling thread: std's Mutex is not reentrant and a
\* relock by the holder does not return); panics on a poisoned Mutex (the
\* guard inside the PoisonError is dropped)
PublishLock(t) ==
    /\ pc[t] = "iter"
    /\ LET f == frame[t]
           v == Channel(subs, f.hub, f.type) IN
        /\ ~IterDone(v, f.idx)
        /\ MutexFree(IterItem(v, f.idx))
        /\ IF IterItem(v, f.idx) \in poisoned
           THEN /\ pc' = [pc EXCEPT ![t] = "panicked"]
                /\ frame' = [frame EXCEPT ![t].failedAt = IterItem(v, f.idx),
                                          ![t].failure = "poisoned"]
                /\ UNCHANGED lockedBy
           ELSE /\ pc' = [pc EXCEPT ![t] = "locked"]
                /\ lockedBy' = [lockedBy EXCEPT ![IterItem(v, f.idx)] = t]
                /\ UNCHANGED frame
    /\ UNCHANGED <<names, hubs, running, strong, eaten, subs, arcs, held, poisoned, nSub, nUnsub, guards>>

\* .as_mut().receive(p) under the guard; the guard is dropped at the end of
\* the statement, or by the unwinding of a panic, which poisons the Mutex
ReceiveStep(t) ==
    /\ pc[t] = "locked"
    /\ LET f == frame[t]
           h == IterItem(Channel(subs, f.hub, f.type), f.idx)
           failed == ReceiveFails(arcs[h].kind, f.event) \/ InnerFailed(t, h) IN
        /\ InnerDone(t, h)
        /\ lockedBy' = DropGuard(lockedBy, h)
        /\ pc' = PopInner([pc EXCEPT ![t] = AfterReceive(failed)], t, h, "idle")
        /\ IF failed
           THEN /\ poisoned' = PoisonOnPanic(poisoned, h)
                /\ frame' = PopInner([frame EXCEPT ![t].failedAt = h,
                                                   ![t].failure = "receive"],
                                     t, h, NoFrame)
                /\ UNCHANGED eaten
           ELSE /\ poisoned' = poisoned
                /\ eaten' = [eaten EXCEPT
                                ![h] = @ + Eats(arcs[h].kind, f.type, f.event)]
                /\ frame' = PopInner([frame EXCEPT
                                         ![t].delivered = Append(@, <<h, f.event>>),
                                         ![t].idx = @ + 1],
                                     t, h, NoFrame)
    /\ UNCHANGED <<names, hubs, running, strong, arcs, held, nSub, nUnsub, guards>>

\* (mutant: publish_T drops the subscriber whose receive panicked)
ReceivePrunesFailed(t) ==
    /\ ReceiveStep(t)
    /\ subs' = IF pc'[t] = "panicked"
               THEN SetChannel(subs, frame[t].hub, frame[t].type,
                        RemoveByIdentity(
                            Channel(subs, frame[t].hub, frame[t].type),
                            frame'[t].failedAt))
               ELSE subs

\* publish_T has only &self: no step of it touches __subscriptions_T
Receive(t) == ReceiveStep(t) /\ UNCHANGED subs

\* (mutant: publish_T treats a channel without subscribers as an error)
PublishReturnRejectsEmpty(t) ==
    /\ pc[t] = "iter"
    /\ IterDone(Channel(subs, frame[t].hub, frame[t].type), frame[t].idx)
    /\ pc' = [pc EXCEPT ![t] =
                 IF Len(Channel(subs, frame[t].hub, frame[t].type)) = 0
                 THEN "panicked" ELSE "returned"]
    /\ UNCHANGED <<names, hubs, running, strong, eaten, subs, arcs, held, lockedBy, poisoned, frame, nSub, nUnsub, guards>>

\* the loop of publish_T ends and the call returns
PublishReturn(t) ==
    /\ pc[t] = "iter"
    /\ IterDone(Channel(subs, frame[t].hub, frame[t].type), frame[t].idx)
    /\ pc' = [pc EXCEPT ![t] = "returned"]
    /\ UNCHANGED <<names, hubs, running, strong, eaten, subs, arcs, held, lockedBy, poisoned, frame, nSub, nUnsub, guards>>

\* the caller has the result of its call (catch_unwind in test_can_publish,
\* the count asserted in test_can_unsubscribe) and goes on
Resume(t) ==
    /\ pc[t] \in {"returned", "panicked", "unsubscribed"}
    /\ pc' = [pc EXCEPT ![t] = "idle"]
    /\ frame' = [frame EXCEPT ![t] = NoFrame]
    /\ UNCHANGED <<names, hubs, running, strong, eaten, subs, arcs, held, lockedBy, poisoned, nSub, nUnsub, guards>>

\* arc.lock().unwrap() by a caller that kept the handle
CallerLock(t, h) ==
    /\ pc[t] = "idle"
    /\ h \in held
    /\ MutexFree(h)
    /\ h \notin poisoned
    /\ Cardinality({g \in Handles : lockedBy[g] = t}) < MaxGuards
    /\ lockedBy' = [lockedBy EXCEPT ![h] = t]
    /\ guards' = guards \cup {<<t, h>>}
    /\ UNCHANGED <<names, hubs, running, strong, eaten, subs, arcs, held, poisoned, pc, frame, nSub, nUnsub>>

\* the caller's MutexGuard goes out of scope
CallerUnlock(t, h) ==
    /\ pc[t] = "idle"
    /\ h \in Handles
    /\ lockedBy[h] = t
    /\ lockedBy' = DropGuard(lockedBy, h)
    /\ guards' = guards \ {<<t, h>>}
    /\ UNCHANGED <<names, hubs, running, strong, eaten, subs, arcs, held, poisoned, pc, frame, nSub, nUnsub>>

\* the caller lets its Arc go out of scope (no MutexGuard borrows it)
DropHandle(t, h) ==
    /\ pc[t] = "idle"
    /\ h \in held
    /\ \A t2 \in Threads : <<t2, h>> \notin guards
    /\ held' = held \ {h}
    /\ strong' = ArcDrop(strong, h)
    /\ UNCHANGED <<names, hubs, running, eaten, subs, arcs, lockedBy, poisoned, pc, frame, nSub, nUnsub, guards>>

\* receive of a re-entrant subscriber calls publish_U(event) on the hub whose
\* publish_T is delivering to it
InnerPublish ==
    /\ pc[Outer] = "locked"
    /\ LET f == frame[Outer]
           h == IterItem(Channel(subs, f.hub, f.type), f.idx) IN
        /\ arcs[h].kind \in Reentrant
        /\ PublishStart(Inner, f.hub, Target(arcs[h].kind, f.type), f.event)

\* handles that live in the channels of the other hub
ForeignCount == Cardinality(UNION {Range(subs[OtherHub][T]) : T \in names})

Next ==
    \/ \E t \in running, hub \in hubs, T \in names, kind \in Kinds :
          /\ hub = OtherHub => ForeignCount < MaxForeign
          /\ Subscribe(t, hub, T, kind)
    \/ \E t \in running, T \in names, h \in Handles :
          Unsubscribe(t, TheHub, T, h)
    \/ \E t \in running, T \in names, e \in Events :
          PublishStart(t, TheHub, T, e)
    \/ \E t \in running : PublishLock(t)
    \/ \E t \in running : Receive(t)
    \/ \E t \in running : PublishReturn(t)
    \/ \E t \in running : Resume(t)
    \/ \E t \in running, h \in Handles : CallerLock(t, h)
    \/ \E t \in running, h \in Handles : CallerUnlock(t, h)

Spec == Init /\ [][Next]_vars

SpecAB == InitAB /\ [][Next]_vars

\* no subscriber of T's channel would eat beyond MaxEaten
Fits(hub, T, e) ==
    \A h \in Range(Channel(subs, hub, T)) :
        eaten[h] + Eats(arcs[h].kind, T, e) <= MaxEaten

\* the program of the Subscriber doc example: Dogs on a hub of Food, the
\* caller keeping, locking and dropping the Arcs subscribe_Food returns
NextFood ==
    \/ \E t \in running : Subscribe(t, TheHub, "Food", "Dog")
    \/ \E t \in running, h \in Handles : Unsubscribe(t, TheHub, "Food", h)
    \/ \E t \in running, e \in Amounts :
          /\ Fits(TheHub, "Food", e)
          /\ PublishStart(t, TheHub, "Food", e)
    \/ \E t \in running : PublishLock(t)
    \/ \E t \in running : Receive(t)
    \/ \E t \in running : PublishReturn(t)
    \/ \E t \in running : Resume(t)
    \/ \E t \in running, h \in Handles : CallerLock(t, h)
    \/ \E t \in running, h \in Handles : CallerUnlock(t, h)
    \/ \E t \in running, h \in Handles : DropHandle(t, h)

SpecFood == InitFood /\ [][NextFood]_vars

\* a hub of A and B with Listeners and one subscriber whose receive publishes
NextNested ==
    \/ \E t \in running, T \in names, kind \in {"Listener"} \cup Reentrant :
          /\ kind \in Reentrant => \A h \in Handles : arcs[h].kind \notin Reentrant
          /\ Subscribe(t, TheHub, T, kind)
    \/ \E t \in running, T \in names, h \in Handles :
          Unsubscribe(t, TheHub, T, h)
    \/ \E t \in running, T \in names, e \in Events :
          PublishStart(t, TheHub, T, e)
    \/ InnerPublish
    \/ \E t \in running \cup {Inner} : PublishLock(t)
    \/ \E t \in running \cup {Inner} : Receive(t)
    \/ \E t \in running \cup {Inner} : PublishReturn(t)
    \/ \E t \in running : Resume(t)

SpecNested == InitAB /\ [][NextNested]_vars

\* the Listeners of the tests on one hub, two threads calling into it
NextMT ==
    \/ \E t \in running, T \in names : Subscribe(t, TheHub, T, "Listener")
    \/ \E t \in running, T \in names, h \in Handles :
          Unsubscribe(t, TheHub, T, h)
    \/ \E t \in running, T \in names, e \in Events :
          PublishStart(t, TheHub, T, e)
    \/ \E t \in running : PublishLock(t)
    \/ \E t \in running : Receive(t)
    \/ \E t \in running : PublishReturn(t)
    \/ \E t \in running : Resume(t)
    \/ \E t \in running, h \in Handles : CallerLock(t, h)
    \/ \E t \in running, h \in Handles : CallerUnlock(t, h)

\* two threads calling into one hub
SpecMT == InitMT /\ [][NextMT]_vars

\* the calling thread keeps running and every receive terminates
SpecFair ==
    /\ Spec
    /\ \A t \in Threads :
          /\ WF_vars(PublishLock(t))
          /\ WF_vars(Receive(t))
          /\ WF_vars(PublishReturn(t))

\* ------------------------------------------------------------ properties
InPublish(t) == pc[t] \in {"iter", "locked", "returned", "panicked"}

\* the handles receive returned from in the call of frame f, in order
DeliveredHandles(f) == [i \in 1..Len(f.delivered) |-> f.delivered[i][1]]

\* the channel the call of frame f works on, when the call was entered
EntryChannel(f) == f.entry[f.hub][f.type]

NoRepeat(v) == \A i, j \in DOMAIN v : i # j => v[i] # v[j]

\* C1: a publish_T(e) call in which no receive fails and no handle is
\* poisoned invokes receive exactly once, with e, on every handle that was in
\* T's channel when the call started and on no other handle, and returns only
\* after all these deliveries; a call that does not return normally has met a
\* failing receive or a poisoned handle.
C1_PublishDeliversOnce ==
    \A t \in Threads :
        /\ InPublish(t) =>
              /\ Len(frame[t].delivered) <= Len(EntryChannel(frame[t]))
              /\ DeliveredHandles(frame[t]) =
                     SubSeq(EntryChannel(frame[t]), 1, Len(frame[t].delivered))
              /\ NoRepeat(DeliveredHandles(frame[t]))
              /\ \A i \in DOMAIN frame[t].delivered :
                     frame[t].delivered[i][2] = frame[t].event
        /\ pc[t] = "returned" =>
              DeliveredHandles(frame[t]) = EntryChannel(frame[t])
        /\ pc[t] = "panicked" =>
              /\ frame[t].failedAt \in Range(EntryChannel(frame[t]))
              /\ \/ /\ frame[t].failure = "receive"
                    /\ ReceiveFails(arcs[frame[t].failedAt].kind, frame[t].event)
                 \/ /\ frame[t].failure = "poisoned"
                    /\ frame[t].failedAt \in poisoned

C1_Witness ==
    \E t \in Threads :
        /\ pc[t] = "returned"
        /\ Len(frame[t].delivered) = 3
        /\ frame[t].event = Poison

Ascending(v) == \A i, j \in DOMAIN v : i < j => v[i] < v[j]

\* C2 as stated: publish_T delivers in registration order, an earlier
\* subscribed handle (a smaller Arc number) before a later subscribed one.
C2_RegistrationOrder ==
    \A t \in Threads : InPublish(t) => Ascending(DeliveredHandles(frame[t]))

\* C2 amended: publish_T delivers in the current sequence order of the
\* channel, the entry at a lower index before the entry at a higher one; this
\* is registration order as long as no unsubscribe_T has removed a handle
\* from that channel.
C2_SequenceOrder ==
    \A t \in Threads : InPublish(t) =>
        /\ Len(frame[t].delivered) <= Len(Channel(subs, frame[t].hub, frame[t].type))
        /\ \A i \in DOMAIN frame[t].delivered :
              frame[t].delivered[i][1] =
                  Channel(subs, frame[t].hub, frame[t].type)[i]
        /\ nUnsub[frame[t].hub][frame[t].type] = 0 =>
              Ascending(DeliveredHandles(frame[t]))

C2_Witness ==
    \E t \in Threads :
        /\ pc[t] = "returned"
        /\ nUnsub[frame[t].hub][frame[t].type] > 0
        /\ Len(frame[t].delivered) = 2
        /\ ~Ascending(DeliveredHandles(frame[t]))

\* the handle the publish_T of thread t is at
Current(t) ==
    IterItem(Channel(subs, frame[t].hub, frame[t].type), frame[t].idx)

\* C3: if receive fails on handle h during publish_T(e), publish_T(e) fails
\* to its caller, every handle placed before h in the channel has received e
\* exactly once in that call and no handle placed after h receives e in it.
C3_FailFast ==
    /\ [](\A t \in Threads :
            (pc[t] = "panicked" /\ frame[t].failure = "receive") =>
                LET v == EntryChannel(frame[t])
                    k == PtrEqIndex(v, frame[t].failedAt) IN
                    /\ k # 0
                    /\ DeliveredHandles(frame[t]) = SubSeq(v, 1, k - 1)
                    /\ NoRepeat(DeliveredHandles(frame[t]))
                    /\ frame[t].failedAt \notin Range(DeliveredHandles(frame[t]))
                    /\ \A i \in DOMAIN frame[t].delivered :
                          frame[t].delivered[i][2] = frame[t].event)
    /\ [][\A t \in Threads :
            (/\ pc[t] = "locked"
             /\ ReceiveFails(arcs[Current(t)].kind, frame[t].event)
             /\ pc'[t] # "locked") =>
                /\ pc'[t] = "panicked"
                /\ frame'[t].failure = "receive"
                /\ frame'[t].failedAt = Current(t)
                /\ frame'[t].delivered = frame[t].delivered]_vars
    /\ [][\A t \in Threads :
            pc[t] = "panicked" =>
                \/ pc'[t] = "panicked" /\ frame'[t] = frame[t]
                \/ pc'[t] = "idle"]_vars

C3_Witness ==
    \E t \in Threads :
        /\ pc[t] = "panicked"
        /\ frame[t].failure = "receive"
        /\ Len(frame[t].delivered) = 1
        /\ Len(EntryChannel(frame[t])) = 3

\* C4: once a receive on handle h has failed while publish_T held h's lock,
\* h's Mutex is poisoned for ever: every later publish_T that reaches h while
\* h is in the channel fails at h without invoking receive on h and delivers
\* to no handle placed after h.
C4_PoisonedForever ==
    /\ [][poisoned \subseteq poisoned']_vars
    /\ [][\A t \in Threads :
            (pc[t] = "locked" /\ pc'[t] = "panicked") =>
                Current(t) \in poisoned']_vars
    /\ [][\A t \in Threads :
            (/\ pc[t] = "iter"
             /\ ~IterDone(Channel(subs, frame[t].hub, frame[t].type), frame[t].idx)
             /\ Current(t) \in poisoned
             /\ (pc'[t] # "iter" \/ frame'[t] # frame[t])) =>
                /\ pc'[t] = "panicked"
                /\ frame'[t].failure = "poisoned"
                /\ frame'[t].failedAt = Current(t)
                /\ frame'[t].delivered = frame[t].delivered]_vars
    /\ [](\A t \in Threads :
            (pc[t] = "panicked" /\ frame[t].failure = "poisoned") =>
                LET v == EntryChannel(frame[t])
                    k == PtrEqIndex(v, frame[t].failedAt) IN
                    /\ k # 0
                    /\ frame[t].failedAt \in poisoned
                    /\ DeliveredHandles(frame[t]) = SubSeq(v, 1, k - 1)
                    /\ frame[t].failedAt \notin Range(DeliveredHandles(frame[t])))

C4_Witness ==
    \E t \in Threads :
        /\ pc[t] = "panicked"
        /\ frame[t].failure = "poisoned"
        /\ Len(frame[t].delivered) = 1
        /\ Len(EntryChannel(frame[t])) = 3

Count(v, g) == Cardinality({i \in DOMAIN v : v[i] = g})

\* the handles receive has been invoked on in the publish_T call of thread t
Invoked(t) ==
    Range(DeliveredHandles(frame[t]))
        \cup (IF pc[t] = "locked" THEN {Current(t)} ELSE {})
        \cup (IF pc[t] = "panicked" /\ frame[t].failure = "receive"
              THEN {frame[t].failedAt} ELSE {})

\* C5: unsubscribe_T(h) with h in T's channel removes exactly h: the length
\* of the channel decreases by exactly 1, the other handles of the channel
\* are unchanged, and no publish_T that starts afterwards invokes receive on
\* h (h is not in the channel again, and publish_T invokes receive only on
\* handles of the channel).
C5_UnsubscribeRemovesExactly ==
    /\ [](\A t \in Threads :
            (pc[t] = "unsubscribed"
                /\ frame[t].arg \in Range(EntryChannel(frame[t]))) =>
                LET v == EntryChannel(frame[t])
                    w == Channel(subs, frame[t].hub, frame[t].type) IN
                    /\ Len(w) = Len(v) - 1
                    /\ frame[t].arg \notin Range(w)
                    /\ \A g \in Handles \ {frame[t].arg} :
                          Count(w, g) = Count(v, g))
    /\ [](\A t \in Threads :
            InPublish(t) =>
                Invoked(t) \subseteq
                    Range(Channel(subs, frame[t].hub, frame[t].type)))
    /\ [][\A hub \in hubs, T \in names, h \in Handles :
            h \notin Range(Channel(subs, hub, T)) =>
                h \notin Range(Channel(subs, hub, T)')]_vars

C5_Witness ==
    \E t \in Threads :
        /\ pc[t] = "unsubscribed"
        /\ Len(EntryChannel(frame[t])) = 3
        /\ frame[t].arg = EntryChannel(frame[t])[2]

\* C6: unsubscribe_T(h) with h not in T's channel (already removed, or
\* created by another hub) does not fail and leaves the channels unchanged;
\* a second unsubscribe_T(h) right after any unsubscribe_T(h) finds nothing
\* to remove, so twice in a row leaves the hub as once does.
C6_UnsubscribeAbsentNoOp ==
    \A t \in Threads :
        pc[t] = "unsubscribed" =>
            /\ frame[t].arg \notin Range(EntryChannel(frame[t])) =>
                  subs = frame[t].entry
            /\ PtrEqIndex(Channel(subs, frame[t].hub, frame[t].type),
                          frame[t].arg) = 0
            /\ RemoveByIdentity(Channel(subs, frame[t].hub, frame[t].type),
                                frame[t].arg)
                   = Channel(subs, frame[t].hub, frame[t].type)

C6_Witness ==
    \E t \in Threads :
        /\ pc[t] = "unsubscribed"
        /\ frame[t].arg \in Range(Channel(subs, OtherHub, frame[t].type))
        /\ Len(EntryChannel(frame[t])) = 2
        /\ \E g \in Range(EntryChannel(frame[t])) :
              arcs[g].kind = arcs[frame[t].arg].kind

\* C7: a hub starts with every channel empty (no call made, length 0), and
\* after any sequence of operations the length of T's channel is the number
\* of subscribe_T calls made minus the number of unsubscribe_T calls whose
\* handle was in the channel.
C7_ChannelLength ==
    \A hub \in hubs, T \in names :
        /\ nUnsub[hub][T] <= nSub[hub][T]
        /\ Len(Channel(subs, hub, T)) = nSub[hub][T] - nUnsub[hub][T]

C7_Witness ==
    \E T \in names :
        /\ nSub[TheHub][T] = 3
        /\ nUnsub[TheHub][T] = 1
        /\ \E t \in Threads : pc[t] = "returned"

\* C8: in every reachable state no handle appears more than once in a
\* channel.
C8_NoDuplicateHandle ==
    \A hub \in hubs, T \in names : NoRepeat(Channel(subs, hub, T))

C8_Witness ==
    \E T \in names :
        /\ Len(Channel(subs, TheHub, T)) = 2
        /\ nUnsub[TheHub][T] = 1
        /\ \E t \in Threads : pc[t] = "panicked"

\* a step of subscribe_T, unsubscribe_T or publish_T of event type T
StepOf(T) ==
    \/ nSub'[TheHub][T] # nSub[TheHub][T]
    \/ \E t \in Threads :
          \/ pc[t] = "idle" /\ pc'[t] # "idle" /\ frame'[t].type = T
          \/ /\ pc[t] # "idle"
             /\ frame[t].type = T
             /\ (pc'[t] # pc[t] \/ frame'[t] # frame[t])

\* C9: channels of distinct event types are independent: publish_T1 never
\* invokes receive on a handle registered only on T2, and subscribe_T1,
\* unsubscribe_T1 and publish_T1 (a failing one too) leave the sequence of
\* T2's channel and the lock state of T2's handles unchanged.
C9_ChannelsIndependent ==
    /\ [](\A t \in Threads : InPublish(t) =>
            \A T2 \in names \ {frame[t].type} :
                \A h \in Range(Channel(subs, frame[t].hub, T2)) :
                    h \notin Range(Channel(subs, frame[t].hub, frame[t].type))
                        => h \notin Invoked(t))
    /\ [](\A t \in Threads : pc[t] # "idle" =>
            \A T2 \in names \ {frame[t].type} :
                Channel(subs, frame[t].hub, T2) = frame[t].entry[frame[t].hub][T2])
    /\ [][\A T \in names : StepOf(T) =>
            \A T2 \in names \ {T} :
                /\ Channel(subs, TheHub, T2)' = Channel(subs, TheHub, T2)
                /\ \A h \in Range(Channel(subs, TheHub, T2)) :
                      /\ lockedBy'[h] = lockedBy[h]
                      /\ (h \in poisoned') = (h \in poisoned)]_vars

C9_Witness ==
    \E t \in Threads :
        /\ pc[t] = "panicked"
        /\ frame[t].failure = "receive"
        /\ \E T2 \in names \ {frame[t].type} :
              /\ Len(Channel(subs, frame[t].hub, T2)) = 2
              /\ \E h \in Range(Channel(subs, frame[t].hub, T2)) :
                    h \notin poisoned /\ lockedBy[h] # NoThread

\* C10: publish_T never changes the hub's structure: whether it returns or
\* fails (a receive failed, a handle was poisoned), every channel has the
\* same sequence of handles as when the call was entered; a handle whose
\* receive failed stays registered.
C10_PublishKeepsStructure ==
    \A t \in Threads :
        /\ InPublish(t) => subs = frame[t].entry
        /\ pc[t] = "panicked" =>
              frame[t].failedAt \in
                  Range(Channel(subs, frame[t].hub, frame[t].type))

C10_Witness ==
    \E t \in Threads :
        /\ pc[t] = "panicked"
        /\ frame[t].failure = "receive"
        /\ Len(Channel(subs, frame[t].hub, frame[t].type)) = 2
        /\ frame[t].failedAt = Channel(subs, frame[t].hub, frame[t].type)[2]

\* C11: publish_T on a channel with no handle returns normally and invokes
\* no receive, whatever the event (also the one a Listener fails on); so
\* after every subscribed handle has been unsubscribed a publish_T delivers
\* to nobody and does not fail.
C11_EmptyChannelNoOp ==
    /\ [](\A t \in Threads :
            (InPublish(t) /\ EntryChannel(frame[t]) = <<>>) =>
                /\ pc[t] \in {"iter", "returned"}
                /\ frame[t].delivered = <<>>
                /\ frame[t].failure = "none"
                /\ Invoked(t) = {})
    /\ [][\A t \in Threads :
            (/\ pc[t] = "iter"
             /\ EntryChannel(frame[t]) = <<>>
             /\ pc'[t] # "iter") => pc'[t] = "returned"]_vars

C11_Witness ==
    \E t \in Threads :
        /\ pc[t] = "returned"
        /\ frame[t].event = Poison
        /\ EntryChannel(frame[t]) = <<>>
        /\ nSub[frame[t].hub][frame[t].type] = 2
        /\ nUnsub[frame[t].hub][frame[t].type] = 2

\* handle h is in a channel of some hub
Registered(h) ==
    \E hub \in hubs, T \in names : h \in Range(Channel(subs, hub, T))

\* C12: a handle is Registered from the subscribe_T that creates it until the
\* unsubscribe_T that removes it and never again afterwards; receive is
\* invoked on a handle only while it is registered; its holder can lock the
\* handle in either state.
C12_HandleLifecycle ==
    /\ [][\A h \in Handles' \ Handles : Registered(h)']_vars
    /\ [][\A h \in Handles : ~Registered(h) => ~Registered(h)']_vars
    /\ [][\A h \in Handles : (Registered(h) /\ ~Registered(h)') =>
            \E t \in Threads :
                pc'[t] = "unsubscribed" /\ pc[t] = "idle" /\ frame'[t].arg = h]_vars
    /\ [](\A t \in Threads :
            /\ pc[t] = "unsubscribed" => ~Registered(frame[t].arg)
                   \/ frame[t].arg \notin Range(EntryChannel(frame[t]))
            /\ InPublish(t) => \A h \in Invoked(t) : Registered(h))
    /\ [](\A t \in Threads, h \in held :
            (/\ pc[t] = "idle"
             /\ lockedBy[h] = NoThread
             /\ h \notin poisoned
             /\ \A g \in Handles : lockedBy[g] # t) => ENABLED CallerLock(t, h))

C12_Witness ==
    \E t \in Threads, h \in Handles :
        /\ ~Registered(h)
        /\ lockedBy[h] = t
        /\ pc[t] = "returned"
        /\ Len(frame[t].delivered) = 2

\* thread t is inside receive on handle h, under the guard publish_T took
Receiving(t, h) == pc[t] = "locked" /\ Current(t) = h

\* C13: with several threads publishing on the same channel and callers
\* locking the handles they kept, at most one party at a time has access to
\* the subscriber of a handle: no two receive calls on a handle overlap and
\* no receive overlaps with a caller that holds the handle's lock.
C13_MutualExclusion ==
    \A h \in Handles :
        /\ Cardinality({t \in Threads : Receiving(t, h)})
             + Cardinality({t \in Threads : <<t, h>> \in guards}) <= 1
        /\ \A t \in Threads :
              (Receiving(t, h) \/ <<t, h>> \in guards) => lockedBy[h] = t

C13_Witness ==
    \E t1, t2 \in Threads, h, g \in Handles :
        /\ t1 # t2
        /\ Receiving(t1, h)
        /\ pc[t2] = "iter"
        /\ ~IterDone(Channel(subs, frame[t2].hub, frame[t2].type), frame[t2].idx)
        /\ Current(t2) = h
        /\ <<t2, g>> \in guards

\* the inner publish_T is at a handle it has still to lock
InnerWaits ==
    /\ pc[Inner] = "iter"
    /\ ~IterDone(Channel(subs, frame[Inner].hub, frame[Inner].type),
                 frame[Inner].idx)

\* the kinds of subscriber a receive could subscribe
Subscribable == {"Listener"} \cup Reentrant

C15_MembershipStableInPublish ==
    /\ [][subs' # subs => \A t \in Threads : pc[t] = "idle"]_vars
    /\ [](\A t \in Threads : InPublish(t) =>
            Channel(subs, frame[t].hub, frame[t].type) = EntryChannel(frame[t]))
    /\ [](\A t \in Threads : pc[t] = "returned" =>
            Range(Channel(subs, frame[t].hub, frame[t].type))
                \subseteq Range(DeliveredHandles(frame[t])))
    /\ [][\A t1 \in Threads :
            (pc[t1] = "idle" /\ pc'[t1] = "unsubscribed") =>
                \A t2 \in Threads : pc[t2] = "idle"]_vars

C15_Witness ==
    \E t1, t2 \in Threads :
        /\ t1 # t2
        /\ pc[t1] = "locked"
        /\ pc[t2] = "returned"
        /\ Len(frame[t2].delivered) = 2
        /\ Len(frame[t1].delivered) = 1
        /\ nUnsub[TheHub]["A"] = 1

\* the handles whose lock thread t holds through its publish_T call
PublishLocks(t) ==
    {h \in Handles : lockedBy[h] = t /\ <<t, h>> \notin guards}

\* C16: a publish_T call holds at most one handle lock at any moment: the
\* lock of the handle it is delivering to, released when that receive returns
\* and before the next handle is locked; it holds none when it returns.
C16_OneLockAtATime ==
    \A t \in Threads :
        /\ pc[t] = "locked" => PublishLocks(t) = {Current(t)}
        /\ pc[t] # "locked" => PublishLocks(t) = {}

C16_Witness ==
    \E t \in Threads :
        /\ pc[t] = "locked"
        /\ frame[t].idx = 3
        /\ Len(frame[t].delivered) = 2

\* thread t is in publish_T and holds, as a caller, the lock of a handle of
\* the channel it publishes on
HoldsOwn(t) ==
    /\ InPublish(t)
    /\ \E h \in Range(EntryChannel(frame[t])) : <<t, h>> \in guards

Survivors(v, h) == SelectSeq(v, LAMBDA g : g # h)

\* the entry of v that was last is at index i of w, every other surviving
\* entry has kept its index, and w is one shorter than v
SwappedWithLast(v, w, i) ==
    /\ Len(w) = Len(v) - 1
    /\ i < Len(v) => w[i] = v[Len(v)]
    /\ \A j \in 1 .. (Len(v) - 1) : j # i => w[j] = v[j]

\* C18 as stated: unsubscribe_T(h) removes the first identity-equal entry by
\* swap-with-last, and removing a handle that is not the last one changes the
\* relative delivery order of the survivors.
C18_NonLastRemovalReorders ==
    \A t \in Threads :
        (pc[t] = "unsubscribed"
            /\ frame[t].arg \in Range(EntryChannel(frame[t]))) =>
            LET v == EntryChannel(frame[t])
                w == Channel(subs, frame[t].hub, frame[t].type)
                h == frame[t].arg IN
                \E i \in DOMAIN v :
                    /\ v[i] = h
                    /\ \A j \in 1 .. (i - 1) : v[j] # h
                    /\ SwappedWithLast(v, w, i)
                    /\ i < Len(v) => w # Survivors(v, h)

\* C18 amended: unsubscribe_T(h) removes the first identity-equal entry by
\* swap-with-last (the last entry takes index i, every other survivor keeps
\* its index, the length drops by one); the relative delivery order of the
\* survivors changes exactly when at least two entries follow the removed one.
C18_SwapWithLast ==
    \A t \in Threads :
        (pc[t] = "unsubscribed"
            /\ frame[t].arg \in Range(EntryChannel(frame[t]))) =>
            LET v == EntryChannel(frame[t])
                w == Channel(subs, frame[t].hub, frame[t].type)
                h == frame[t].arg IN
                \E i \in DOMAIN v :
                    /\ v[i] = h
                    /\ \A j \in 1 .. (i - 1) : v[j] # h
                    /\ SwappedWithLast(v, w, i)
                    /\ (w # Survivors(v, h)) <=> (i + 1 < Len(v))

C18_Witness ==
    \E t \in Threads :
        /\ pc[t] = "unsubscribed"
        /\ Len(EntryChannel(frame[t])) = 3
        /\ frame[t].arg = EntryChannel(frame[t])[1]
        /\ Channel(subs, frame[t].hub, frame[t].type) =
              <<EntryChannel(frame[t])[3], EntryChannel(frame[t])[2]>>

\* no handle of the channel publish_T of thread t walks is poisoned and no
\* receive of the published event fails
Clean(t) ==
    \A g \in Range(Channel(subs, frame[t].hub, frame[t].type)) :
        /\ g \notin poisoned
        /\ ~ReceiveFails(arcs[g].kind, frame[t].event)

\* a poisoned handle of T that is no longer in T's channel
PoisonedGone(hub, T) ==
    \E h \in poisoned : arcs[h].type = T /\ h \notin Range(Channel(subs, hub, T))

\* C19: unsubscribe_T never acquires a handle's lock: it can be called on a
\* handle that is poisoned or locked, leaves every lock and poison flag as it
\* was, and removes the handle; once a poisoned handle is unsubscribed, a
\* publish_T on that channel does not fail and returns having delivered to
\* all remaining handles, provided none of them is poisoned and none of
\* their receives fails.
C19_UnsubscribeTakesNoLock ==
    /\ [](\A t \in running, h \in held :
            (pc[t] = "idle" /\ ~Borrowed(TheHub)) =>
                ENABLED Unsubscribe(t, TheHub, arcs[h].type, h))
    /\ [][\A t \in Threads :
            (pc[t] = "idle" /\ pc'[t] = "unsubscribed") =>
                /\ lockedBy' = lockedBy
                /\ poisoned' = poisoned
                /\ frame'[t].arg \notin
                       Range(Channel(subs', frame'[t].hub, frame'[t].type))]_vars
    /\ [](\A t \in Threads :
            (InPublish(t) /\ PoisonedGone(frame[t].hub, frame[t].type)
                /\ Clean(t)) =>
                /\ pc[t] # "panicked"
                /\ pc[t] = "returned" =>
                      DeliveredHandles(frame[t]) =
                          Channel(subs, frame[t].hub, frame[t].type))

C19_Witness ==
    \E t \in Threads, h \in Handles, g \in Handles :
        /\ pc[t] = "returned"
        /\ h \in poisoned
        /\ lockedBy[g] = t
        /\ nUnsub[frame[t].hub][frame[t].type] = 2
        /\ {h, g} \cap Range(Channel(subs, frame[t].hub, frame[t].type)) = {}
        /\ Len(frame[t].delivered) = 1

\* the subscribers whose last Arc is gone
Released == {h \in Handles : strong[h] = 0}

\* the channel entries that are h
Occurrences(h) ==
    Cardinality({<<hub, T, i>> \in hubs \X names \X (1 .. MaxHandles + 1) :
                    i <= Len(subs[hub][T]) /\ subs[hub][T][i] = h})

\* C20: a subscriber is shared between its channel entry and the handle the
\* caller holds, and is released only when both are gone: never while it is
\* in a channel or the caller holds the handle; unsubscribe_T leaves the
\* subscriber and its state alone, the state changes only by the receive
\* calls of publish_T, and the caller can still lock a handle it holds to
\* read that state after unsubscribe_T.
C20_SharedOwnership ==
    /\ [](\A h \in Handles :
            /\ strong[h] = Occurrences(h) + (IF h \in held THEN 1 ELSE 0)
            /\ h \in Released <=> (Occurrences(h) = 0 /\ h \notin held))
    /\ [][\A t \in Threads :
            (pc[t] = "idle" /\ pc'[t] = "unsubscribed") =>
                /\ eaten' = eaten
                /\ arcs' = arcs
                /\ held' = held]_vars
    /\ [][\A h \in Handles :
            eaten'[h] # eaten[h] =>
                \E t \in Threads :
                    /\ Receiving(t, h)
                    /\ eaten'[h] = eaten[h] + frame[t].event]_vars
    /\ [](\A t \in running, h \in held :
            (/\ pc[t] = "idle"
             /\ MutexFree(h)
             /\ h \notin poisoned
             /\ Cardinality({g \in Handles : lockedBy[g] = t}) < MaxGuards) =>
                ENABLED CallerLock(t, h))

C20_Witness ==
    \E t \in Threads, h \in Handles :
        /\ <<t, h>> \in guards
        /\ h \in held
        /\ Occurrences(h) = 0
        /\ eaten[h] = 2
        /\ \E g \in Released : eaten[g] = 1

TypeOK ==
    /\ names \subseteq EventTypes
    /\ hubs \subseteq Hubs
    /\ \A hub \in hubs, T \in names : Range(subs[hub][T]) \subseteq Handles
    /\ held \subseteq Handles
    /\ poisoned \subseteq Handles
    /\ DOMAIN strong = Handles
    /\ DOMAIN eaten = Handles
    /\ \A h \in Handles : strong[h] \in 0 .. 2 /\ eaten[h] \in 0 .. MaxEaten
====
